---- MODULE Spec2Model ----
(***************************************************************************)
(* State-machine model of the token-vesting program                        *)
(* (programs/vesting/src/processor.rs): the Init, Create and Unlock        *)
(* instruction handlers acting on vesting accounts and SPL token accounts, *)
(* executed one instruction at a time by the ledger.                       *)
(*                                                                         *)
(* Integer widths are scaled: u32 is U32Bits bits wide and u64 is U64Bits  *)
(* bits wide, so that casts and overflow checks keep their meaning within  *)
(* the range of the model checker's integers.                              *)
(***************************************************************************)
EXTENDS Integers, Sequences, FiniteSets, TLC

\* ------------------------------------------------------------------ bounds
U32Bits == 1
U64Bits == 3
MaxSlots == 2
MaxClock == 3

\* The funding account starts with one unit more than one unit per slot.
FundInit == MaxSlots + 1

U32Mod == 2 ^ U32Bits
U64Mod == 2 ^ U64Bits
U64_MAX == U64Mod - 1

U32_MAX == U32Mod - 1

\* ------------------------------------------------------------ the universe
\* Program ids.
VestingProgram == "vesting_program"
SystemProgram == "system_program"
SplToken == "spl_token"
FakeToken == "fake_token"

\* Wallets (system accounts that can sign a transaction).
Wallets == {"auth", "ben", "mal"}

\* Seeds, and the addresses at which a vesting account is kept: every
\* instruction names the account at pda1, with its own seed or another one.
Seeds == {1, 2}
VestKeys == {"pda1"}

\* Token accounts that exist on the ledger.
TokKeys == {"fund", "vault", "vaultX", "vaultD", "vaultC", "benTok", "malTok"}
NoKey == "none"

\* Release entries an instruction can carry: timestamp is a u32, quantity a u64.
\* The inputs take the extreme timestamps and the quantities zero, one and max.
Timestamps == {0, U32_MAX}
Quantities == {0, 1, U64_MAX}
VestingInfo == [timestamp : Timestamps, quantity : Quantities]

RECURSIVE SeqsUpTo(_, _)
SeqsUpTo(S, n) ==
    IF n = 0 THEN {<< >>}
    ELSE LET shorter == SeqsUpTo(S, n - 1)
         IN  shorter \cup {Append(s, x) : s \in {q \in shorter : Len(q) = n - 1}, x \in S}

Schedules == SeqsUpTo(VestingInfo, MaxSlots)

\* The release lists tried with a Create that is rejected before it reads them.
ProbeSchedules == {<< >>, << [timestamp |-> 0, quantity |-> 1] >>}

\* --------------------------------------------------------------- variables
VARIABLES
    clock,      \* Clock::unix_timestamp, an i64 that never runs backwards
    vest,       \* vesting accounts by address: NoAccount or [owner, header, releases]
    amount,     \* spl_token Account::amount of every token account
    last,       \* the last instruction executed, its inputs, result and pre-state
    created,    \* per vesting address: successful Creates, their schedule and deposit
    call        \* a call of a function of the client or of a codec: inputs and result

vars == << clock, vest, amount, last, created, call >>
ledger == << clock, vest, amount, last, created >>

NoAccount == [owner |-> SystemProgram]

ZeroKey == "11111111"
Mint1 == "M1"
Mint2 == "M2"

\* Pubkey::create_program_address(&[&seed], program_id): a collision-free hash.
create_program_address(seed) == IF seed = 1 THEN "pda1" ELSE "pda2"

\* The fields of the spl_token accounts that no instruction of this program
\* rewrites: owner, mint, delegate, close_authority.
TokOwner(k) ==
    CASE k = "fund" -> "auth"
      [] k = "vault" -> "pda1"
      [] k = "vaultX" -> "mal"
      [] k = "vaultD" -> "pda1"
      [] k = "vaultC" -> "pda1"
      [] k = "benTok" -> "ben"
      [] OTHER -> "mal"
TokMint(k) == Mint1
TokDelegate(k) == IF k = "vaultD" THEN "mal" ELSE NoKey
TokCloseAuthority(k) == IF k = "vaultC" THEN "mal" ELSE NoKey

\* `clock.unix_timestamp as u32`: the i64 truncated to the width of u32.
AsU32(t) == t % U32Mod

\* u64::checked_add: None when the sum does not fit.
checked_add_wrapping(a, b) == (a + b) % U64Mod
checked_add(a, b) == IF a + b > U64_MAX THEN -1 ELSE a + b

\* `+=` on u64 in a release build: wraps at the width.
wrapping_add(a, b) == (a + b) % U64Mod

Ok(v, a, q) == [err |-> "Ok", msg |-> "", vest |-> v, amount |-> a, qty |-> q]
Err(e, m, v, a) == [err |-> e, msg |-> m, vest |-> v, amount |-> a, qty |-> 0]

\* spl_token transfer of qty from src to dst under `authority`, as invoked by
\* the handlers: the instruction builder rejects a foreign token program, the
\* token program checks funds, mint, owner and signature, and moves the amount.
transfer(a, program, src, dst, authority, signed, qty) ==
    IF program # SplToken THEN [err |-> "IncorrectProgramId", amount |-> a]
    ELSE IF a[src] < qty THEN [err |-> "Token:InsufficientFunds", amount |-> a]
    ELSE IF TokMint(src) # TokMint(dst) THEN [err |-> "Token:MintMismatch", amount |-> a]
    ELSE IF TokOwner(src) # authority THEN [err |-> "Token:OwnerMismatch", amount |-> a]
    ELSE IF ~signed THEN [err |-> "MissingRequiredSignature", amount |-> a]
    ELSE IF src = dst THEN [err |-> "Ok", amount |-> a]
    ELSE IF a[dst] + qty > U64_MAX THEN [err |-> "Token:Overflow", amount |-> a]
    ELSE [err |-> "Ok", amount |-> [a EXCEPT ![src] = a[src] - qty, ![dst] = a[dst] + qty]]

\* The zeroed account data that create_account allocates: a header and
\* release_count release slots.
ZeroRelease == [timestamp |-> 0, quantity |-> 0]

\* The packed lengths of the header (is_initialized, mint, recipient) and of a
\* release entry (timestamp u32, quantity u64).
VestingHeader_LEN == 65
VestingInfo_LEN == 12

\* `(release_count as usize) * VestingInfo::LEN + VestingHeader::LEN`
state_size_m(release_count) == release_count * VestingInfo_LEN
state_size(release_count) == release_count * VestingInfo_LEN + VestingHeader_LEN

EmptyAccount(release_count) ==
    [owner |-> VestingProgram, data_len |-> state_size(release_count),
     is_initialized |-> FALSE, mint |-> ZeroKey,
     recipient |-> ZeroKey, releases |-> [i \in 1 .. release_count |-> ZeroRelease]]

\* ------------------------------------------------------------------- Init
\* system_program create_account, signed for the new address with the seed:
\* the payer must sign and the address must not be in use.
create_account(v, signed, new_key, release_count) ==
    IF ~signed THEN [err |-> "MissingRequiredSignature", vest |-> v]
    ELSE IF v[new_key] # NoAccount THEN [err |-> "System:AccountAlreadyInUse", vest |-> v]
    ELSE [err |-> "Ok", vest |-> [v EXCEPT ![new_key] = EmptyAccount(release_count)]]

process_init(v, a, signed, vkey, seed, release_count) ==
    LET vesting_account_pda == create_program_address(seed)
    IN
    IF vesting_account_pda # vkey
    THEN Err("InvalidArgument", "Incorrect vesting account address", v, a)
    ELSE LET c == create_account(v, signed, vesting_account_pda, release_count)
         IN  IF c.err # "Ok" THEN Err(c.err, "", v, a)
             ELSE Ok(c.vest, a, 0)

\* ----------------------------------------------------------------- Create
\* The loop of process_create_vesting over releases[i ..]: accumulate with
\* overflow check, then write the entry into its slot.
RECURSIVE create_loop_m(_, _, _, _)
create_loop_m(releases, i, total_tokens, slots) ==
    IF i > Len(releases) THEN [err |-> "Ok", total |-> total_tokens, slots |-> slots]
    ELSE LET n == checked_add(total_tokens, releases[i].quantity)
         IN  IF n = -1
             THEN [err |-> "InvalidInstructionData", total |-> total_tokens, slots |-> slots]
             ELSE IF Len(slots) = 0
             THEN [err |-> "Panic", total |-> n, slots |-> slots]
             ELSE create_loop_m(releases, i + 1, n, [slots EXCEPT ![1] = releases[i]])

RECURSIVE create_loop(_, _, _, _)
create_loop(releases, i, total_tokens, slots) ==
    IF i > Len(releases) THEN [err |-> "Ok", total |-> total_tokens, slots |-> slots]
    ELSE LET n == checked_add(total_tokens, releases[i].quantity)
         IN  IF n = -1
             THEN [err |-> "InvalidInstructionData", total |-> total_tokens, slots |-> slots]
             ELSE IF i > Len(slots)
             THEN [err |-> "Panic", total |-> n, slots |-> slots]
             ELSE create_loop(releases, i + 1, n, [slots EXCEPT ![i] = releases[i]])

\* `vesting_account.try_borrow_data()?[0] == 1`
already_initialized_m(acc) == FALSE
already_initialized(acc) == acc.is_initialized

\* `Account::unpack(&token_account.data.borrow())?.amount < total_tokens`
insufficient_funds_m(a, token_account, total_tokens) == FALSE
insufficient_funds(a, token_account, total_tokens) == a[token_account] < total_tokens

\* The checks of process_create_vesting that precede the write of the header:
\* the message logged by the first check that fails, "" when all pass.
create_checks_m(v, signed, vkey, vesting_vault, seed) ==
    LET vesting_account_pda == create_program_address(seed)
        acc == v[vkey]
    IN
    IF ~signed THEN "Authority must be a signer"
    ELSE IF vesting_account_pda # vkey THEN "Incorrect vesting account address"
    ELSE IF acc.owner # VestingProgram THEN "Vesting program must own the vesting account"
    ELSE IF TokOwner(vesting_vault) # vesting_account_pda
    THEN "Vesting vault is not owned by the vesting program"
    ELSE IF TokDelegate(vesting_vault) # NoKey
    THEN "Vesting vault should not have a delegate authority"
    ELSE IF TokCloseAuthority(vesting_vault) # NoKey
    THEN "Vesting vault should not have a close authority"
    ELSE ""

create_checks_no_signer(v, signed, vkey, vesting_vault, seed) ==
    LET vesting_account_pda == create_program_address(seed)
        acc == v[vkey]
    IN
    IF vesting_account_pda # vkey THEN "Incorrect vesting account address"
    ELSE IF acc.owner # VestingProgram THEN "Vesting program must own the vesting account"
    ELSE IF already_initialized(acc) THEN "Vesting contract with this seed already exists"
    ELSE IF TokOwner(vesting_vault) # vesting_account_pda
    THEN "Vesting vault is not owned by the vesting program"
    ELSE IF TokDelegate(vesting_vault) # NoKey
    THEN "Vesting vault should not have a delegate authority"
    ELSE IF TokCloseAuthority(vesting_vault) # NoKey
    THEN "Vesting vault should not have a close authority"
    ELSE ""

create_checks_owner_only(v, signed, vkey, vesting_vault, seed) ==
    LET vesting_account_pda == create_program_address(seed)
        acc == v[vkey]
    IN
    IF ~signed THEN "Authority must be a signer"
    ELSE IF vesting_account_pda # vkey THEN "Incorrect vesting account address"
    ELSE IF acc.owner # VestingProgram THEN "Vesting program must own the vesting account"
    ELSE IF already_initialized(acc) THEN "Vesting contract with this seed already exists"
    ELSE IF TokOwner(vesting_vault) # vesting_account_pda
    THEN "Vesting vault is not owned by the vesting program"
    ELSE ""

create_checks(v, signed, vkey, vesting_vault, seed) ==
    LET vesting_account_pda == create_program_address(seed)
        acc == v[vkey]
    IN
    IF ~signed THEN "Authority must be a signer"
    ELSE IF vesting_account_pda # vkey THEN "Incorrect vesting account address"
    ELSE IF acc.owner # VestingProgram THEN "Vesting program must own the vesting account"
    ELSE IF already_initialized(acc) THEN "Vesting contract with this seed already exists"
    ELSE IF TokOwner(vesting_vault) # vesting_account_pda
    THEN "Vesting vault is not owned by the vesting program"
    ELSE IF TokDelegate(vesting_vault) # NoKey
    THEN "Vesting vault should not have a delegate authority"
    ELSE IF TokCloseAuthority(vesting_vault) # NoKey
    THEN "Vesting vault should not have a close authority"
    ELSE ""

process_create_vesting(v, a, authority, signed, token_account, vkey, vesting_vault, token_program, seed, mint, recipient, releases) ==
    LET failed == create_checks(v, signed, vkey, vesting_vault, seed)
        acc == v[vkey]
    IN
    IF failed # ""
    THEN Err("InvalidArgument", failed, v, a)
    ELSE
    LET loop == create_loop(releases, 1, 0, acc.releases)
        written == [acc EXCEPT !.is_initialized = TRUE, !.mint = mint,
                               !.recipient = recipient, !.releases = loop.slots]
        v2 == [v EXCEPT ![vkey] = written]
    IN
    IF loop.err # "Ok"
    THEN Err(loop.err, "", v2, a)
    ELSE IF insufficient_funds(a, token_account, loop.total)
    THEN Err("InsufficientFunds", "Token vault has insufficient funds.", v2, a)
    ELSE LET t == transfer(a, token_program, token_account, vesting_vault,
                           authority, signed, loop.total)
         IN  IF t.err # "Ok" THEN Err(t.err, "", v2, a)
             ELSE Ok(v2, t.amount, loop.total)

\* ----------------------------------------------------------------- Unlock
\* VestingHeader::unpack of the first bytes of the account.
VestingHeader_unpack(acc) ==
    [ok |-> TRUE,
     header |-> [is_initialized |-> acc.is_initialized, mint |-> acc.mint,
                 recipient |-> acc.recipient]]

\* unpack_releases of the bytes after the header: one entry per slot.
unpack_releases(acc) == acc.releases

\* `clock.unix_timestamp as u32 >= release.timestamp`
elapsed_m(now, release) == TRUE
elapsed(now, release) == AsU32(now) >= release.timestamp

\* The write-back of the release entries after the header of the account.
store_releases_zero_ts(acc, releases) ==
    [acc EXCEPT !.releases = [i \in 1 .. Len(releases) |->
                                 IF releases[i].quantity = 0 THEN ZeroRelease
                                 ELSE releases[i]]]
store_releases_m(acc, releases) ==
    [acc EXCEPT !.is_initialized = FALSE, !.releases = releases]
store_releases(acc, releases) == [acc EXCEPT !.releases = releases]

\* The loop of process_unlock_tokens over releases[i ..].
RECURSIVE unlock_loop_keep(_, _, _, _)
unlock_loop_keep(releases, i, now, release_quantity) ==
    IF i > Len(releases) THEN [qty |-> release_quantity, releases |-> releases]
    ELSE IF elapsed(now, releases[i])
         THEN unlock_loop_keep(releases, i + 1, now,
                               wrapping_add(release_quantity, releases[i].quantity))
         ELSE unlock_loop_keep(releases, i + 1, now, release_quantity)

RECURSIVE unlock_loop_m(_, _, _, _)
unlock_loop_m(releases, i, now, release_quantity) ==
    IF i > Len(releases) THEN [qty |-> release_quantity, releases |-> releases]
    ELSE IF elapsed(now, releases[i])
         THEN unlock_loop_m([releases EXCEPT ![i].quantity = 0], i + 1, now,
                            wrapping_add(release_quantity, 1))
         ELSE unlock_loop_m(releases, i + 1, now, release_quantity)

RECURSIVE unlock_loop(_, _, _, _)
unlock_loop(releases, i, now, release_quantity) ==
    IF i > Len(releases) THEN [qty |-> release_quantity, releases |-> releases]
    ELSE IF elapsed(now, releases[i])
         THEN unlock_loop([releases EXCEPT ![i].quantity = 0], i + 1, now,
                          wrapping_add(release_quantity, releases[i].quantity))
         ELSE unlock_loop(releases, i + 1, now, release_quantity)

process_unlock_tokens_write_first(v, a, now, vkey, vesting_vault, recipient_account, recipient_token_account, spl_token_program, seed) ==
    LET vesting_account_pda == create_program_address(seed)
        acc == v[vkey]
    IN
    IF vesting_account_pda # vkey
    THEN Err("InvalidArgument", "Incorrect vesting account address", v, a)
    ELSE IF acc.owner # VestingProgram
    THEN Err("InvalidArgument", "Synchrony vesting program must own the vesting account", v, a)
    ELSE IF spl_token_program # SplToken
    THEN Err("IncorrectProgramId", "Incorrect spl-token ID", v, a)
    ELSE IF ~VestingHeader_unpack(acc).ok
    THEN Err("InvalidAccountData", "", v, a)
    ELSE IF VestingHeader_unpack(acc).header.recipient # recipient_account
    THEN Err("InvalidArgument", "recipient address does not match", v, a)
    ELSE IF TokOwner(vesting_vault) # vesting_account_pda
    THEN Err("InvalidArgument", "Vault is not owned by the vesting account", v, a)
    ELSE
    LET loop == unlock_loop(unpack_releases(acc), 1, now, 0)
    IN
    IF loop.qty = 0
    THEN Err("InvalidArgument", "No vesting periods have elapsed...", v, a)
    ELSE LET t == transfer(a, spl_token_program, vesting_vault, recipient_token_account,
                           vesting_account_pda, TRUE, loop.qty)
         IN  IF t.err # "Ok"
             THEN Err(t.err, "", [v EXCEPT ![vkey] = store_releases(acc, loop.releases)], a)
             ELSE [err |-> "Ok", msg |-> "",
                   vest |-> [v EXCEPT ![vkey] = store_releases(acc, loop.releases)],
                   amount |-> t.amount, qty |-> loop.qty]

process_unlock_tokens_any_recipient(v, a, now, vkey, vesting_vault, recipient_account, recipient_token_account, spl_token_program, seed) ==
    LET vesting_account_pda == create_program_address(seed)
        acc == v[vkey]
    IN
    IF vesting_account_pda # vkey
    THEN Err("InvalidArgument", "Incorrect vesting account address", v, a)
    ELSE IF acc.owner # VestingProgram
    THEN Err("InvalidArgument", "Synchrony vesting program must own the vesting account", v, a)
    ELSE IF spl_token_program # SplToken
    THEN Err("IncorrectProgramId", "Incorrect spl-token ID", v, a)
    ELSE IF ~VestingHeader_unpack(acc).ok
    THEN Err("InvalidAccountData", "", v, a)
    ELSE IF TokOwner(vesting_vault) # vesting_account_pda
    THEN Err("InvalidArgument", "Vault is not owned by the vesting account", v, a)
    ELSE
    LET loop == unlock_loop(unpack_releases(acc), 1, now, 0)
    IN
    IF loop.qty = 0
    THEN Err("InvalidArgument", "No vesting periods have elapsed...", v, a)
    ELSE LET t == transfer(a, spl_token_program, vesting_vault, recipient_token_account,
                           vesting_account_pda, TRUE, loop.qty)
         IN  IF t.err # "Ok" THEN Err(t.err, "", v, a)
             ELSE [err |-> "Ok", msg |-> "",
                   vest |-> [v EXCEPT ![vkey] = store_releases(acc, loop.releases)],
                   amount |-> t.amount, qty |-> loop.qty]

process_unlock_tokens(v, a, now, vkey, vesting_vault, recipient_account, recipient_token_account, spl_token_program, seed) ==
    LET vesting_account_pda == create_program_address(seed)
        acc == v[vkey]
    IN
    IF vesting_account_pda # vkey
    THEN Err("InvalidArgument", "Incorrect vesting account address", v, a)
    ELSE IF acc.owner # VestingProgram
    THEN Err("InvalidArgument", "Synchrony vesting program must own the vesting account", v, a)
    ELSE IF spl_token_program # SplToken
    THEN Err("IncorrectProgramId", "Incorrect spl-token ID", v, a)
    ELSE IF ~VestingHeader_unpack(acc).ok
    THEN Err("InvalidAccountData", "", v, a)
    ELSE IF VestingHeader_unpack(acc).header.recipient # recipient_account
    THEN Err("InvalidArgument", "recipient address does not match", v, a)
    ELSE IF TokOwner(vesting_vault) # vesting_account_pda
    THEN Err("InvalidArgument", "Vault is not owned by the vesting account", v, a)
    ELSE
    LET loop == unlock_loop(unpack_releases(acc), 1, now, 0)
    IN
    IF loop.qty = 0
    THEN Err("InvalidArgument", "No vesting periods have elapsed...", v, a)
    ELSE LET t == transfer(a, spl_token_program, vesting_vault, recipient_token_account,
                           vesting_account_pda, TRUE, loop.qty)
         IN  IF t.err # "Ok" THEN Err(t.err, "", v, a)
             ELSE [err |-> "Ok", msg |-> "",
                   vest |-> [v EXCEPT ![vkey] = store_releases(acc, loop.releases)],
                   amount |-> t.amount, qty |-> loop.qty]

\* ------------------------------------------------- the ledger's instructions
NoReleases == << >>

Record(op, seed, vkey, authority, signed, src, dst, recipient, program, releases, r) ==
    [op |-> op, seed |-> seed, vkey |-> vkey, authority |-> authority,
     signed |-> signed, src |-> src, dst |-> dst, recipient |-> recipient,
     program |-> program, releases |-> releases, release_count |-> 0,
     mint |-> NoKey, t |-> clock,
     err |-> r.err, msg |-> r.msg, qty |-> r.qty,
     pre_vest |-> vest, pre_amount |-> amount]

\* An instruction that returns an error is rolled back by the runtime: the
\* writes of the handler reach the ledger only when it returns Ok(()).
Commit(r) ==
    /\ vest' = IF r.err = "Ok" THEN r.vest ELSE vest
    /\ amount' = IF r.err = "Ok" THEN r.amount ELSE amount

\* The account lists and arguments tried with each instruction: the ones the
\* client sends for the vesting account at pda1, and each of them with one
\* account or argument replaced.
InitInputs ==
    {[seed |-> 1, release_count |-> n] : n \in 0 .. MaxSlots}
        \cup {[seed |-> 2, release_count |-> MaxSlots]}

CreateSent ==
    [authority |-> "auth", signed |-> TRUE, seed |-> 1, vault |-> "vault",
     program |-> SplToken, mint |-> Mint1, recipient |-> "ben"]
CreateInputs ==
    {CreateSent,
     [CreateSent EXCEPT !.signed = FALSE],
     [CreateSent EXCEPT !.authority = "mal"],
     [CreateSent EXCEPT !.seed = 2],
     [CreateSent EXCEPT !.vault = "vaultX"],
     [CreateSent EXCEPT !.vault = "vaultD"],
     [CreateSent EXCEPT !.vault = "vaultC"],
     [CreateSent EXCEPT !.program = FakeToken],
     [CreateSent EXCEPT !.mint = Mint2, !.recipient = "mal"]}

UnlockSent ==
    [seed |-> 1, vault |-> "vault", recipient |-> "ben", dst |-> "benTok",
     program |-> SplToken]
UnlockInputs ==
    {UnlockSent,
     [UnlockSent EXCEPT !.seed = 2],
     [UnlockSent EXCEPT !.vault = "vaultX"],
     [UnlockSent EXCEPT !.vault = "vaultD"],
     [UnlockSent EXCEPT !.recipient = "mal"],
     [UnlockSent EXCEPT !.recipient = ZeroKey],
     [UnlockSent EXCEPT !.dst = "malTok"],
     [UnlockSent EXCEPT !.recipient = "mal", !.dst = "malTok"],
     [UnlockSent EXCEPT !.program = FakeToken]}

Init_ix ==
    \E in \in InitInputs, vkey \in VestKeys :
        LET r == process_init(vest, amount, TRUE, vkey, in.seed, in.release_count)
        IN  /\ Commit(r)
            /\ last' = [Record("Init", in.seed, vkey, "auth", TRUE, NoKey, NoKey, NoKey,
                               SystemProgram, NoReleases, r)
                           EXCEPT !.release_count = in.release_count]
            /\ UNCHANGED << clock, created, call >>

Create_ix ==
    \E in \in CreateInputs, vkey \in VestKeys :
        \E releases \in (IF in = CreateSent
                             /\ create_checks(vest, in.signed, vkey, in.vault, in.seed) = ""
                         THEN Schedules ELSE ProbeSchedules) :
            LET r == process_create_vesting(vest, amount, in.authority, in.signed, "fund",
                                            vkey, in.vault, in.program, in.seed, in.mint,
                                            in.recipient, releases)
            IN  /\ Commit(r)
                /\ last' = [Record("Create", in.seed, vkey, in.authority, in.signed, "fund",
                                   in.vault, in.recipient, in.program, releases, r)
                               EXCEPT !.mint = in.mint]
                /\ created' = IF r.err = "Ok"
                              THEN [created EXCEPT ![vkey] =
                                        [count |-> @.count + 1, releases |-> releases,
                                         deposit |-> @.deposit + r.qty, paid |-> @.paid,
                                         vault |-> in.vault]]
                              ELSE created
                /\ UNCHANGED << clock, call >>

Unlock_ix ==
    \E in \in UnlockInputs, vkey \in VestKeys :
        LET r == process_unlock_tokens(vest, amount, clock, vkey, in.vault, in.recipient,
                                       in.dst, in.program, in.seed)
        IN  /\ Commit(r)
            /\ last' = Record("Unlock", in.seed, vkey, NoKey, FALSE, in.vault, in.dst,
                              in.recipient, in.program, NoReleases, r)
            /\ created' = IF r.err = "Ok"
                          THEN [created EXCEPT ![vkey].paid = @ + r.qty]
                          ELSE created
            /\ UNCHANGED << clock, call >>

NoResult == [err |-> "-", msg |-> "", qty |-> 0]

\* The ledger clock advances between instructions.
Tick ==
    /\ clock < MaxClock
    /\ clock' = clock + 1
    /\ last' = Record("Tick", 0, NoKey, NoKey, FALSE, NoKey, NoKey, NoKey, NoKey,
                      NoReleases, NoResult)
    /\ UNCHANGED << vest, amount, created, call >>

\* No function of the client is being called while the ledger runs.
NoCall == [fn |-> "none"]

LedgerInit ==
    /\ clock = 0
    /\ vest = [k \in VestKeys |-> NoAccount]
    /\ amount = [k \in TokKeys |-> IF k = "fund" THEN FundInit ELSE 0]
    /\ last = Record("Start", 0, NoKey, NoKey, FALSE, NoKey, NoKey, NoKey, NoKey,
                     NoReleases, NoResult)
    /\ created = [k \in VestKeys |->
                    [count |-> 0, releases |-> NoReleases, deposit |-> 0, paid |-> 0,
                     vault |-> NoKey]]

Init == LedgerInit /\ call = NoCall

Next == Init_ix \/ Create_ix \/ Unlock_ix \/ Tick

Spec == Init /\ [][Next]_vars

TypeOK ==
    /\ clock \in 0 .. MaxClock
    /\ \A k \in TokKeys : amount[k] \in 0 .. U64_MAX

\* ------------------------------------------------- the client: parse_releases
\* The largest period count and the largest amount numerator tried.
MaxPeriods == 4
MaxAmount == 12

D == 86400
Y == 31556952

\* The f64 values of parse_releases, kept exact as fractions num / den, den > 0.
F64(n, d) == [num |-> n, den |-> d]
f64_mul(a, b) == F64(a.num * b.num, a.den * b.den)
f64_div(a, b) == F64(a.num * b.den, a.den * b.num)
f64_add(a, b) ==
    IF a.den = b.den THEN F64(a.num + b.num, a.den)
    ELSE F64(a.num * b.den + b.num * a.den, a.den * b.den)
f64_sub(a, b) ==
    IF a.den = b.den THEN F64(a.num - b.num, a.den)
    ELSE F64(a.num * b.den - b.num * a.den, a.den * b.den)
f64_floor(a) == F64(a.num \div a.den, 1)

\* spl_token::ui_amount_to_amount: `(ui_amount * 10^decimals) as u64`, the cast
\* dropping the fraction.
ui_amount_to_amount(ui_amount, decimals) ==
    (ui_amount.num * (10 ^ decimals)) \div ui_amount.den

is_leap_m(year) == FALSE
is_leap(year) == year % 4 = 0 /\ (year % 100 # 0 \/ year % 400 = 0)

\* NaiveDateTime::from_timestamp(timestamp, 0): the civil year and month of the
\* day number timestamp / 86400 in the proleptic Gregorian calendar.
from_timestamp(timestamp) ==
    LET z == (timestamp \div D) + 719468
        era == z \div 146097
        doe == z - era * 146097
        yoe == (doe - doe \div 1460 + doe \div 36524 - doe \div 146096) \div 365
        doy == doe - (365 * yoe + yoe \div 4 - yoe \div 100)
        mp == (5 * doy + 2) \div 153
        m == IF mp < 10 THEN mp + 3 ELSE mp - 9
    IN  [year |-> yoe + era * 400 + (IF m <= 2 THEN 1 ELSE 0), month |-> m]

parse_increment(timestamp) ==
    LET date == from_timestamp(timestamp)
    IN  D * (CASE date.month \in {1, 3, 5, 7, 8, 10, 12} -> 31
               [] date.month \in {4, 6, 9, 11} -> 30
               [] date.month = 2 -> IF is_leap(date.year) THEN 29 ELSE 28)

\* The closure parse_quantity of parse_releases.
parse_quantity(i, adj, pc, tier_amount, release_periods) ==
    LET qty == f64_div(f64_mul(tier_amount, pc), F64(release_periods - adj, 1))
    IN  IF i < release_periods - 1
        THEN f64_floor(qty)
        ELSE f64_add(f64_mul(f64_sub(qty, f64_floor(qty)),
                             F64(release_periods - (1 + adj), 1)),
                     qty)

\* The loop of parse_releases from index i on. The timestamps tried lie in
\* 0 .. 2^31 - 1, where `release_timestamp as u32` keeps the value.
RECURSIVE releases_loop(_, _, _, _, _, _, _, _)
releases_loop(i, release_timestamp, release_increment, releases, mint_decimals, group, release_periods, tier_amount) ==
    IF i >= release_periods THEN releases
    ELSE LET ui == IF group = "Team"
                   THEN parse_quantity(i, 0, F64(1, 1), tier_amount, release_periods)
                   ELSE IF i = 0 THEN f64_mul(tier_amount, F64(1, 10))
                   ELSE parse_quantity(i, 1, F64(9, 10), tier_amount, release_periods)
             release_quantity == ui_amount_to_amount(ui, mint_decimals)
             ts == release_timestamp + release_increment
         IN  releases_loop(i + 1, ts, parse_increment(ts),
                           Append(releases, [timestamp |-> ts, quantity |-> release_quantity]),
                           mint_decimals, group, release_periods, tier_amount)

parse_releases(execution_date, mint_decimals, group, release_periods, tier_amount) ==
    releases_loop(0, execution_date, IF group = "Team" THEN Y ELSE 0, << >>,
                  mint_decimals, group, release_periods, tier_amount)

\* config.execution_date as a unix time: 2022-06-30T08:30:00, 2023-02-10,
\* 2023-12-31T23:59:59, 2024-01-31, 2024-02-10T12:00:00 and 2027-11-15.
ExecutionDates ==
    {1656577800, 1675987200, 1704067199, 1706659200, 1707566400, 1826236800}
Groups == {"Team", "Private"}
TierAmounts == {F64(n, d) : n \in 0 .. MaxAmount, d \in {1, 4}}
MintDecimals == {0, 1}

CliInit ==
    /\ LedgerInit
    /\ call \in [fn : {"parse_releases"}, execution_date : ExecutionDates,
                 mint_decimals : MintDecimals, group : Groups,
                 release_periods : 1 .. MaxPeriods, amount : TierAmounts,
                 done : {FALSE}, releases : {<< >>}]

parse_releases_call ==
    /\ call.fn = "parse_releases" /\ ~call.done
    /\ call' = [call EXCEPT !.done = TRUE,
                            !.releases = parse_releases(call.execution_date,
                                                        call.mint_decimals, call.group,
                                                        call.release_periods, call.amount)]
    /\ UNCHANGED ledger

CliNext == parse_releases_call

CliSpec == CliInit /\ [][CliNext]_vars

\* ------------------------------------------- the codec of VestingState
PK_LEN == 32

IS_INIT == 0
AUTH == 1
BENE == AUTH + PK_LEN
VAULT == BENE + PK_LEN
MINT == VAULT + PK_LEN
GRANTOR == MINT + PK_LEN
META == GRANTOR + PK_LEN
OUTSTANDING == META + PK_LEN
SB == OUTSTANDING + 8
C_TS == SB + 8
S_TS == C_TS + 8
E_TS == S_TS + 8
PC == E_TS + 8
NCE == PC + 8

VestingState_LEN == 1 + (PK_LEN * 7) + 40 + 1

\* to_le_bytes of an integer n bytes wide, and from_le_bytes.
RECURSIVE to_le_bytes(_, _)
to_le_bytes(value, n) ==
    IF n = 0 THEN << >> ELSE << value % 256 >> \o to_le_bytes(value \div 256, n - 1)
RECURSIVE from_le_bytes(_)
from_le_bytes(bytes) ==
    IF bytes = << >> THEN 0 ELSE bytes[1] + 256 * from_le_bytes(Tail(bytes))

\* Pubkey::as_ref and Pubkey::new_from_array: a key is its 32 bytes; the keys
\* tried repeat one byte.
KeyBytes(b) == [i \in 1 .. PK_LEN |-> b]

\* `dst[lo..hi].copy_from_slice(bytes)`: panics unless the range lies in dst
\* and is as long as bytes. `hi` = -1 stands for the open range `dst[lo..]`.
copy_from_slice(st, lo, hi, bytes) ==
    LET end == IF hi = -1 THEN Len(st.buf) ELSE hi
    IN  IF st.panic \/ end > Len(st.buf) \/ lo > end \/ end - lo # Len(bytes)
        THEN [panic |-> TRUE, buf |-> st.buf]
        ELSE [panic |-> FALSE,
              buf |-> [i \in 1 .. Len(st.buf) |->
                          IF lo < i /\ i <= end THEN bytes[i - lo] ELSE st.buf[i]]]

\* `src[lo..hi].try_into().unwrap()` into an array of n bytes: panics unless
\* the range is n bytes long. `hi` = -1 stands for `src[lo..]`.
slice_into(src, lo, hi, n) ==
    LET end == IF hi = -1 THEN Len(src) ELSE hi
    IN  IF end > Len(src) \/ lo > end \/ end - lo # n
        THEN [panic |-> TRUE, bytes |-> << >>]
        ELSE [panic |-> FALSE, bytes |-> SubSeq(src, lo + 1, end)]

pack_into_slice(x, dst) ==
    LET s0 == [panic |-> FALSE,
               buf |-> [dst EXCEPT ![IS_INIT + 1] = IF x.is_initialized THEN 1 ELSE 0]]
        s1 == copy_from_slice(s0, AUTH, BENE, x.authority)
        s2 == copy_from_slice(s1, BENE, VAULT, x.beneficiary)
        s3 == copy_from_slice(s2, VAULT, MINT, x.vault)
        s4 == copy_from_slice(s3, MINT, GRANTOR, x.mint)
        s5 == copy_from_slice(s4, GRANTOR, META, x.grantor)
        s6 == copy_from_slice(s5, META, OUTSTANDING, x.metadata)
        s7 == copy_from_slice(s6, OUTSTANDING, SB, to_le_bytes(x.outstanding, 8))
        s8 == copy_from_slice(s7, SB, C_TS, to_le_bytes(x.start_balance, 8))
        s9 == copy_from_slice(s8, C_TS, S_TS, to_le_bytes(x.created_ts, 8))
        s10 == copy_from_slice(s9, S_TS, E_TS, to_le_bytes(x.start_ts, 8))
        s11 == copy_from_slice(s10, E_TS, PC, to_le_bytes(x.end_ts, 8))
        s12 == copy_from_slice(s11, PC, NCE, to_le_bytes(x.period_count, 8))
    IN  copy_from_slice(s12, NCE, -1, to_le_bytes(x.nonce, 1))

\* Pack::pack into a buffer of LEN bytes.
VestingState_pack(x) == pack_into_slice(x, [i \in 1 .. VestingState_LEN |-> 0])

\* unpack_from_slice: the value built has no start_balance and no
\* period_count, and end_ts is read from src[E_TS..NCE].
unpack_from_slice(src) ==
    LET authority == slice_into(src, AUTH, BENE, PK_LEN)
        beneficiary == slice_into(src, BENE, VAULT, PK_LEN)
        vault == slice_into(src, VAULT, MINT, PK_LEN)
        mint == slice_into(src, MINT, GRANTOR, PK_LEN)
        grantor == slice_into(src, GRANTOR, META, PK_LEN)
        metadata == slice_into(src, META, OUTSTANDING, PK_LEN)
        outstanding == slice_into(src, OUTSTANDING, SB, 8)
        starting_balance == slice_into(src, SB, C_TS, 8)
        created_ts == slice_into(src, C_TS, S_TS, 8)
        start_ts == slice_into(src, S_TS, E_TS, 8)
        end_ts == slice_into(src, E_TS, NCE, 8)
        nonce == slice_into(src, NCE, -1, 1)
    IN  IF \/ src[IS_INIT + 1] \notin {0, 1}
           \/ \E f \in {authority, beneficiary, vault, mint, grantor, metadata, outstanding,
                        starting_balance, created_ts, start_ts, end_ts, nonce} : f.panic
        THEN [err |-> "Panic"]
        ELSE [err |-> "Ok",
              value |-> [is_initialized |-> src[IS_INIT + 1] = 1,
                         authority |-> authority.bytes, beneficiary |-> beneficiary.bytes,
                         vault |-> vault.bytes, mint |-> mint.bytes,
                         grantor |-> grantor.bytes, metadata |-> metadata.bytes,
                         outstanding |-> from_le_bytes(outstanding.bytes),
                         created_ts |-> from_le_bytes(created_ts.bytes),
                         start_ts |-> from_le_bytes(start_ts.bytes),
                         end_ts |-> from_le_bytes(end_ts.bytes),
                         nonce |-> from_le_bytes(nonce.bytes)]]

\* Pack::unpack: the length must be LEN and the value must be initialized.
VestingState_unpack(input) ==
    IF Len(input) # VestingState_LEN THEN [err |-> "InvalidAccountData"]
    ELSE LET r == unpack_from_slice(input)
         IN  IF r.err = "Ok" /\ ~r.value.is_initialized
             THEN [err |-> "UninitializedAccount"]
             ELSE r

\* unpack(pack(x)).
VestingState_round_trip(x) ==
    LET packed == VestingState_pack(x)
    IN  IF packed.panic THEN [err |-> "Panic"] ELSE VestingState_unpack(packed.buf)

\* The values tried: both flags, two keys per address, small and multi-byte
\* integers.
StateKeys == {KeyBytes(1), KeyBytes(255)}
StateInts == {0, 258}
VestingStates ==
    [is_initialized : BOOLEAN, authority : StateKeys, beneficiary : StateKeys,
     vault : {KeyBytes(3)}, mint : {KeyBytes(4)}, grantor : {KeyBytes(5)},
     metadata : {KeyBytes(6)}, outstanding : StateInts, start_balance : StateInts,
     created_ts : {7}, start_ts : {8}, end_ts : StateInts, period_count : StateInts,
     nonce : {0, 255}]

StateInit ==
    /\ LedgerInit
    /\ call \in [fn : {"VestingState"}, x : VestingStates, done : {FALSE},
                 result : {[err |-> "-"]}]

VestingState_call ==
    /\ call.fn = "VestingState" /\ ~call.done
    /\ call' = [call EXCEPT !.done = TRUE, !.result = VestingState_round_trip(call.x)]
    /\ UNCHANGED ledger

StateNext == VestingState_call

StateSpec == StateInit /\ [][StateNext]_vars

\* ---------------------------------------- the codec of VestingInstruction
IX_INIT == 0
IX_CREATE == 1
IX_WITHDRAW == 2
IX_SETBENEFICIARY == 3

\* The offsets of unpack within the bytes after the tag (S_TS and E_TS of
\* instruction.rs).
BENEFICIARY == 0
IX_S_TS == BENEFICIARY + PK_LEN
IX_E_TS == IX_S_TS + 8
N == IX_E_TS + 8
NONCE == N + 8
AMOUNT == NONCE + 8

VestingInstruction_pack(ix) ==
    CASE ix.tag = "Init" -> << IX_INIT >>
      [] ix.tag = "CreateVesting" ->
            << IX_CREATE >> \o ix.beneficiary \o to_le_bytes(ix.start_ts, 8)
                \o to_le_bytes(ix.end_ts, 8) \o to_le_bytes(ix.period_count, 8)
                \o to_le_bytes(ix.nonce, 1) \o to_le_bytes(ix.amount, 8)
      [] ix.tag = "Withdraw" -> << IX_WITHDRAW >> \o to_le_bytes(ix.amount, 8)
      [] ix.tag = "SetBeneficiary" -> << IX_SETBENEFICIARY >> \o ix.new_beneficiary

\* `rest.get(lo..hi).and_then(|s| s.try_into().ok())` into an array of n
\* bytes: None unless the range lies in rest and is n bytes long. `hi` = -1
\* stands for the open range `lo..`.
get_try_into(rest, lo, hi, n) ==
    LET end == IF hi = -1 THEN Len(rest) ELSE hi
    IN  IF end > Len(rest) \/ lo > end \/ end - lo # n
        THEN [none |-> TRUE, bytes |-> << >>]
        ELSE [none |-> FALSE, bytes |-> SubSeq(rest, lo + 1, end)]

VestingInstruction_unpack(data) ==
    IF data = << >> THEN [err |-> "InvalidInstruction"]
    ELSE
    LET tag == Head(data)
        rest == Tail(data)
    IN
    CASE tag = IX_INIT -> [err |-> "Ok", value |-> [tag |-> "Init"]]
      [] tag = IX_CREATE ->
            LET beneficiary == get_try_into(rest, 0, IX_S_TS, PK_LEN)
                start_ts == get_try_into(rest, IX_S_TS, IX_E_TS, 8)
                end_ts == get_try_into(rest, IX_E_TS, N, 8)
                period_count == get_try_into(rest, N, NONCE, 8)
                nonce == get_try_into(rest, NONCE, AMOUNT, 1)
                amt == get_try_into(rest, AMOUNT, -1, 8)
            IN  IF \E f \in {beneficiary, start_ts, end_ts, period_count, nonce, amt} : f.none
                THEN [err |-> "InvalidInstruction"]
                ELSE [err |-> "Ok",
                      value |-> [tag |-> "CreateVesting", beneficiary |-> beneficiary.bytes,
                                 start_ts |-> from_le_bytes(start_ts.bytes),
                                 end_ts |-> from_le_bytes(end_ts.bytes),
                                 period_count |-> from_le_bytes(period_count.bytes),
                                 nonce |-> from_le_bytes(nonce.bytes),
                                 amount |-> from_le_bytes(amt.bytes)]]
      [] tag = IX_WITHDRAW ->
            LET amt == get_try_into(rest, 0, -1, 8)
            IN  IF amt.none THEN [err |-> "InvalidInstruction"]
                ELSE [err |-> "Ok",
                      value |-> [tag |-> "Withdraw", amount |-> from_le_bytes(amt.bytes)]]
      [] tag = IX_SETBENEFICIARY ->
            LET new_beneficiary == get_try_into(rest, 0, -1, PK_LEN)
            IN  IF new_beneficiary.none THEN [err |-> "InvalidInstruction"]
                ELSE [err |-> "Ok",
                      value |-> [tag |-> "SetBeneficiary",
                                 new_beneficiary |-> new_beneficiary.bytes]]
      [] OTHER -> [err |-> "InvalidArgument"]

\* The instruction values tried.
IxInts == {0, 1, 258}
VestingInstructions ==
    {[tag |-> "Init"]}
        \cup [tag : {"CreateVesting"}, beneficiary : StateKeys, start_ts : IxInts,
              end_ts : IxInts, period_count : IxInts, nonce : {0, 255}, amount : IxInts]
        \cup [tag : {"Withdraw"}, amount : IxInts]
        \cup [tag : {"SetBeneficiary"}, new_beneficiary : StateKeys]

IxInit ==
    /\ LedgerInit
    /\ call \in {[fn |-> "VestingInstruction", ix |-> ix, done |-> FALSE, packed |-> << >>,
                  result |-> [err |-> "-"]] : ix \in VestingInstructions}

VestingInstruction_call ==
    /\ call.fn = "VestingInstruction" /\ ~call.done
    /\ call' = [call EXCEPT !.done = TRUE,
                            !.packed = VestingInstruction_pack(call.ix),
                            !.result = VestingInstruction_unpack(
                                           VestingInstruction_pack(call.ix))]
    /\ UNCHANGED ledger

IxNext == VestingInstruction_call

IxSpec == IxInit /\ [][IxNext]_vars

\* ------------------------------------------------------------------ claims
RECURSIVE SumQty(_)
SumQty(rs) == IF rs = << >> THEN 0 ELSE rs[1].quantity + SumQty(Tail(rs))

\* The stored quantities of the releases whose timestamp is <= t.
RECURSIVE DueSum(_, _)
DueSum(rs, t) ==
    IF rs = << >> THEN 0
    ELSE (IF rs[1].timestamp <= t THEN rs[1].quantity ELSE 0) + DueSum(Tail(rs), t)

Allocated(v, k) == v[k].owner = VestingProgram
IsInit(v, k) == Allocated(v, k) /\ v[k].is_initialized
Untouched == vest = last.pre_vest /\ amount = last.pre_amount

\* The instruction names the account by its own seed.
RightSeed(l) == create_program_address(l.seed) = l.vkey

NoEligibleRelease(l) ==
    l.err = "InvalidArgument" /\ l.msg = "No vesting periods have elapsed..."
AlreadyExists(l) ==
    l.err = "InvalidArgument" /\ l.msg = "Vesting contract with this seed already exists"

\* C1: every successful Unlock credits the released sum to a token account
\* owned by the beneficiary recorded in the header, and an Unlock that names a
\* destination token account not owned by that beneficiary moves nothing out
\* of the vault.
C1_UnlockPaysBeneficiary ==
    (last.op = "Unlock" /\ Allocated(last.pre_vest, last.vkey)) =>
        LET beneficiary == last.pre_vest[last.vkey].recipient
        IN  /\ last.err = "Ok" => TokOwner(last.dst) = beneficiary
            /\ TokOwner(last.dst) # beneficiary =>
                   amount[last.src] = last.pre_amount[last.src]

\* C2: a successful Unlock at ledger time t transfers exactly the sum of the
\* stored quantities of the releases with timestamp <= t, zeroes exactly those
\* and leaves every release with timestamp > t its quantity.
C2_UnlockReleasesDue ==
    (last.op = "Unlock" /\ last.err = "Ok") =>
        LET before == last.pre_vest[last.vkey].releases
            after == vest[last.vkey].releases
        IN  /\ last.qty = DueSum(before, last.t)
            /\ last.pre_amount[last.src] - amount[last.src] = DueSum(before, last.t)
            /\ Len(after) = Len(before)
            /\ \A i \in 1 .. Len(before) :
                   after[i].quantity =
                       IF before[i].timestamp <= last.t THEN 0 ELSE before[i].quantity

\* C3: a Create on a vesting account whose is_initialized is already true
\* fails, as already-existing when it is signed and carries the account's seed,
\* and changes neither the stored header and releases nor any balance.
C3_CreateTwiceRejected ==
    (last.op = "Create" /\ IsInit(last.pre_vest, last.vkey)) =>
        /\ last.err # "Ok"
        /\ (last.signed /\ RightSeed(last)) => AlreadyExists(last)
        /\ Untouched

C3_Witness ==
    /\ last.op = "Create" /\ IsInit(last.pre_vest, last.vkey)
    /\ AlreadyExists(last)
    /\ last.releases # << >>
    /\ SumQty(vest[last.vkey].releases) > 0
    /\ amount["fund"] >= SumQty(last.releases)

\* Would the Create recorded in l have succeeded on the ledger state (v, a)?
ValidAlone(l, v, a) ==
    process_create_vesting(v, a, l.authority, l.signed, l.src, l.vkey, l.dst, l.program,
                           l.seed, l.mint, l.recipient, l.releases).err = "Ok"

\* C4: of two Creates for the same derived address that the ledger executes one
\* after the other, each acceptable on its own, exactly one succeeds: the first
\* one executed; the other fails as already-existing, the vault is credited
\* with the winner's summed quantity only and the stored schedule is the
\* winner's.
C4_CreateRace ==
    [][(/\ last.op = "Create" /\ last'.op = "Create"
        /\ last'.vkey = last.vkey /\ last'.seed = last.seed
        /\ ValidAlone(last, last.pre_vest, last.pre_amount)
        /\ ValidAlone(last', last.pre_vest, last.pre_amount))
       => (/\ last.err = "Ok"
           /\ AlreadyExists(last')
           /\ created'[last.vkey].count = 1
           /\ amount'[last.dst] = last.pre_amount[last.dst] + SumQty(last.releases)
           /\ amount'[last'.dst] - last.pre_amount[last'.dst] =
                  IF last'.dst = last.dst THEN SumQty(last.releases) ELSE 0
           /\ amount'[last.src] = last.pre_amount[last.src] - SumQty(last.releases)
           /\ SubSeq(vest'[last.vkey].releases, 1, Len(last.releases)) = last.releases
           /\ created'[last.vkey].releases = last.releases)]_vars

C4_Witness ==
    /\ last.op = "Create" /\ AlreadyExists(last)
    /\ created[last.vkey].count = 1
    /\ last.releases # << >> /\ last.releases # created[last.vkey].releases
    /\ created[last.vkey].releases # << >>
    /\ vest[last.vkey].releases = created[last.vkey].releases
    /\ amount[last.dst] = SumQty(created[last.vkey].releases)
    /\ amount["fund"] >= SumQty(last.releases)

\* The Create recorded in l passed every check that precedes the comparison of
\* the funding balance with the total: the address, ownership, is_initialized
\* and vault checks, and the accumulation and storing of the releases.
ReachesFundsCheck(l) ==
    /\ create_checks(l.pre_vest, l.signed, l.vkey, l.dst, l.seed) = ""
    /\ create_loop(l.releases, 1, 0, l.pre_vest[l.vkey].releases).err = "Ok"

\* C5: a Create whose funding token account holds less than the sum of the
\* declared quantities fails with InsufficientFunds; the vesting account is
\* still empty (is_initialized false, no release written) and no balance moved.
C5_CreateInsufficientFunds ==
    (/\ last.op = "Create" /\ ReachesFundsCheck(last)
     /\ last.pre_amount[last.src] < SumQty(last.releases))
    => /\ last.err = "InsufficientFunds"
       /\ ~vest[last.vkey].is_initialized
       /\ vest[last.vkey] = EmptyAccount(Len(vest[last.vkey].releases))
       /\ Untouched

C5_Witness ==
    /\ last.op = "Create" /\ last.err = "InsufficientFunds"
    /\ last.pre_amount[last.src] < SumQty(last.releases)
    /\ Len(vest[last.vkey].releases) >= 1

\* C6: a successful Create stores the declared releases unchanged in slot
\* order and moves exactly their summed quantity from the funding account to
\* the vault, so that the stored quantities sum to the amount deposited.
C6_CreateStoresAndFunds ==
    (last.op = "Create" /\ last.err = "Ok") =>
        LET acc == vest[last.vkey]
            n == Len(last.releases)
        IN  /\ acc.is_initialized /\ acc.recipient = last.recipient /\ acc.mint = last.mint
            /\ Len(acc.releases) = Len(last.pre_vest[last.vkey].releases)
            /\ n <= Len(acc.releases)
            /\ \A i \in 1 .. Len(acc.releases) :
                   acc.releases[i] = IF i <= n THEN last.releases[i] ELSE ZeroRelease
            /\ last.pre_amount[last.src] - amount[last.src] = SumQty(last.releases)
            /\ amount[last.dst] - last.pre_amount[last.dst] = SumQty(last.releases)
            /\ SumQty(acc.releases) = amount[last.dst] - last.pre_amount[last.dst]
            /\ last.qty = SumQty(last.releases)

C6_Witness ==
    /\ last.op = "Create" /\ last.err = "Ok"
    /\ Len(last.releases) = 2
    /\ last.releases[1] # last.releases[2]
    /\ SumQty(last.releases) = 2

\* C7: two Unlocks in succession at the same ledger time: the first transfers
\* the sum of the releases due at that time (timestamp <= t) and zeroes them;
\* the second fails with NoEligibleRelease, transfers nothing and leaves the
\* state as the first left it.
C7_UnlockTwice ==
    [][(/\ last.op = "Unlock" /\ last.err = "Ok"
        /\ last'.op = "Unlock" /\ last'.t = last.t
        /\ last'.seed = last.seed /\ last'.vkey = last.vkey /\ last'.src = last.src
        /\ last'.dst = last.dst /\ last'.recipient = last.recipient
        /\ last'.program = last.program)
       => (/\ last.qty = DueSum(last.pre_vest[last.vkey].releases, last.t)
           /\ DueSum(vest[last.vkey].releases, last.t) = 0
           /\ NoEligibleRelease(last')
           /\ vest' = vest /\ amount' = amount)]_vars

\* The Unlock recorded in l passed every check that precedes the scan of the
\* releases: address, ownership, token program, recipient and vault owner.
ReachesScan(l) ==
    /\ RightSeed(l) /\ Allocated(l.pre_vest, l.vkey) /\ l.program = SplToken
    /\ l.pre_vest[l.vkey].recipient = l.recipient
    /\ TokOwner(l.src) = l.vkey

BeforeEveryRelease(l) ==
    \A i \in 1 .. Len(l.pre_vest[l.vkey].releases) :
        l.t < l.pre_vest[l.vkey].releases[i].timestamp

\* C8: an Unlock at a ledger time earlier than every release timestamp fails,
\* with the "no vesting periods have elapsed" rejection when its accounts are
\* in order, transfers nothing and leaves every release quantity unchanged.
C8_UnlockTooEarly ==
    (last.op = "Unlock" /\ IsInit(last.pre_vest, last.vkey) /\ BeforeEveryRelease(last)) =>
        /\ last.err # "Ok"
        /\ ReachesScan(last) => NoEligibleRelease(last)
        /\ Untouched

C8_Witness ==
    /\ last.op = "Unlock" /\ IsInit(last.pre_vest, last.vkey) /\ BeforeEveryRelease(last)
    /\ NoEligibleRelease(last)
    /\ Len(vest[last.vkey].releases) = 2
    /\ SumQty(vest[last.vkey].releases) = 2

\* C9: once is_initialized of a vesting account is true it stays true; it
\* becomes true only by a successful Create on that account, and at most one
\* Create ever succeeds on an account.
C9_InitializedOnceForever ==
    [][\A k \in VestKeys :
        /\ IsInit(vest, k) => IsInit(vest', k)
        /\ (~IsInit(vest, k) /\ IsInit(vest', k)) =>
               (last'.op = "Create" /\ last'.err = "Ok" /\ last'.vkey = k
                /\ created[k].count = 0)
        /\ created'[k].count <= 1
        /\ IsInit(vest', k) <=> created'[k].count = 1]_vars

C9_Witness ==
    /\ last.op = "Unlock" /\ last.err = "Ok"
    /\ IsInit(vest, last.vkey) /\ created[last.vkey].count = 1
    /\ SumQty(vest[last.vkey].releases) = 0
    /\ created[last.vkey].paid = 2

\* C10: a Create with a vault whose recorded owner is not the derived vesting
\* address fails with the error code InvalidVaultOwner, transfers nothing and
\* leaves the vesting account empty.
C10_CreateInvalidVaultOwner ==
    (/\ last.op = "Create" /\ last.signed /\ RightSeed(last)
     /\ Allocated(last.pre_vest, last.vkey) /\ ~IsInit(last.pre_vest, last.vkey)
     /\ TokOwner(last.dst) # create_program_address(last.seed))
    => /\ last.err = "Custom:InvalidVaultOwner"
       /\ Untouched
       /\ vest[last.vkey] = EmptyAccount(Len(vest[last.vkey].releases))

\* The vault has a delegate or a close authority configured.
Encumbered(k) == TokDelegate(k) # NoKey \/ TokCloseAuthority(k) # NoKey

\* The Create recorded in l passed the checks that precede the reading of the
\* vault: signature, address, ownership and is_initialized.
ReachesVaultChecks(l) ==
    /\ l.signed /\ RightSeed(l)
    /\ Allocated(l.pre_vest, l.vkey) /\ ~IsInit(l.pre_vest, l.vkey)

\* C11: a Create whose vault has a delegate or a close authority configured
\* fails (with the rejection of that vault when the earlier checks pass),
\* transfers nothing and leaves an empty vesting account empty.
C11_CreateEncumberedVault ==
    (last.op = "Create" /\ Encumbered(last.dst)) =>
        /\ last.err # "Ok"
        /\ Untouched
        /\ (Allocated(last.pre_vest, last.vkey) /\ ~IsInit(last.pre_vest, last.vkey)) =>
               vest[last.vkey] = EmptyAccount(Len(vest[last.vkey].releases))
        /\ (ReachesVaultChecks(last) /\ TokOwner(last.dst) = last.vkey) =>
               /\ last.err = "InvalidArgument"
               /\ last.msg = IF TokDelegate(last.dst) # NoKey
                             THEN "Vesting vault should not have a delegate authority"
                             ELSE "Vesting vault should not have a close authority"

C11_Witness ==
    /\ last.op = "Create" /\ TokCloseAuthority(last.dst) # NoKey
    /\ last.msg = "Vesting vault should not have a close authority"
    /\ last.releases # << >>
    /\ amount[last.src] >= SumQty(last.releases)
    /\ Len(vest[last.vkey].releases) >= 1

\* C12: every Init, Create and Unlock that names a vesting account whose
\* address differs from the address derived from its seed fails with
\* InvalidSeeds and changes no account data and no balance.
C12_SeedMismatchInvalidSeeds ==
    (/\ last.op \in {"Init", "Create", "Unlock"}
     /\ ~RightSeed(last)
     /\ last.op = "Create" => last.signed)
    => /\ last.err = "InvalidSeeds"
       /\ Untouched

\* C13: an Unlock on an account that Init has allocated and no Create has
\* populated fails and transfers nothing; when its accounts pass every check
\* before the scan of the releases, it fails because nothing is eligible.
C13_UnlockEmptyAccount ==
    (/\ last.op = "Unlock"
     /\ Allocated(last.pre_vest, last.vkey) /\ ~IsInit(last.pre_vest, last.vkey))
    => /\ last.err # "Ok"
       /\ last.qty = 0
       /\ Untouched
       /\ ReachesScan(last) => NoEligibleRelease(last)

C13_Witness ==
    /\ last.op = "Unlock"
    /\ Allocated(last.pre_vest, last.vkey) /\ ~IsInit(last.pre_vest, last.vkey)
    /\ ReachesScan(last) /\ NoEligibleRelease(last)
    /\ Len(vest[last.vkey].releases) = MaxSlots

\* C14: a Create that the authority has not signed fails, as a missing
\* signature, leaving is_initialized false and every balance unchanged.
C14_CreateUnsigned ==
    (last.op = "Create" /\ ~last.signed) =>
        /\ last.err = "InvalidArgument" /\ last.msg = "Authority must be a signer"
        /\ Untouched
        /\ (Allocated(last.pre_vest, last.vkey) /\ ~IsInit(last.pre_vest, last.vkey)) =>
               ~vest[last.vkey].is_initialized

C14_Witness ==
    /\ last.op = "Create" /\ ~last.signed
    /\ Allocated(last.pre_vest, last.vkey) /\ ~IsInit(last.pre_vest, last.vkey)
    /\ RightSeed(last) /\ ~Encumbered(last.dst) /\ TokOwner(last.dst) = last.vkey
    /\ last.releases # << >>
    /\ amount[last.src] >= SumQty(last.releases)
    /\ Len(vest[last.vkey].releases) >= Len(last.releases)

\* C20: a successful Init creates, at the address derived from the seed, an
\* account owned by the vesting program whose data length is the header length
\* plus release_count release lengths, with is_initialized false and every
\* slot zero; no balance and no other account changes.
C20_InitAllocatesEmpty ==
    (last.op = "Init" /\ last.err = "Ok") =>
        LET k == create_program_address(last.seed)
        IN  /\ k = last.vkey
            /\ last.pre_vest[k] = NoAccount
            /\ vest[k].owner = VestingProgram
            /\ vest[k].data_len = VestingHeader_LEN + last.release_count * VestingInfo_LEN
            /\ Len(vest[k].releases) = last.release_count
            /\ ~vest[k].is_initialized
            /\ \A i \in 1 .. Len(vest[k].releases) : vest[k].releases[i] = ZeroRelease
            /\ amount = last.pre_amount
            /\ \A j \in VestKeys \ {k} : vest[j] = last.pre_vest[j]

C20_Witness ==
    /\ last.op = "Init" /\ last.err = "Ok"
    /\ last.release_count = MaxSlots
    /\ vest[last.vkey].data_len = VestingHeader_LEN + MaxSlots * VestingInfo_LEN

\* A call of parse_releases that has returned.
Parsed == call.fn = "parse_releases" /\ call.done

\* The integer base units of a ui amount: amount * 10^decimals, truncated.
BaseUnits(a, decimals) == (a.num * (10 ^ decimals)) \div a.den

\* C15: for every amount, period count >= 1 and group, the quantities of the
\* releases parse_releases returns sum to exactly the base units of the amount.
C15_QuantitiesSumToAmount ==
    (Parsed /\ call.release_periods >= 1) =>
        SumQty(call.releases) = BaseUnits(call.amount, call.mint_decimals)

\* The calendar, by counting months from 1970-01-01 (day 0).
GregorianLeap(y) == (y % 4 = 0 /\ y % 100 # 0) \/ y % 400 = 0
MonthDays(y, m) ==
    IF m = 2 THEN (IF GregorianLeap(y) THEN 29 ELSE 28)
    ELSE IF m \in {4, 6, 9, 11} THEN 30 ELSE 31

YearDays(y) == IF GregorianLeap(y) THEN 366 ELSE 365

\* The year that contains `day` and the day its January starts on, given that
\* year y starts on day `first` and first <= day.
RECURSIVE YearAt(_, _, _)
YearAt(day, y, first) ==
    IF day < first + YearDays(y) THEN [year |-> y, first |-> first]
    ELSE YearAt(day, y + 1, first + YearDays(y))

\* The length of the month of year y that contains `day`, given that month m
\* starts on day `first` and first <= day.
RECURSIVE MonthLengthAt(_, _, _, _)
MonthLengthAt(day, y, m, first) ==
    IF day < first + MonthDays(y, m) THEN MonthDays(y, m)
    ELSE MonthLengthAt(day, y, m + 1, first + MonthDays(y, m))

DaysOfMonthContaining(timestamp) ==
    LET day == timestamp \div 86400
        at == YearAt(day, 1970, 0)
    IN  MonthLengthAt(day, at.year, 1, at.first)

C17_LeapFebruaryIncrement ==
    (/\ Parsed /\ call.group = "Private" /\ call.execution_date = 1706659200
     /\ call.release_periods >= 2)
    => \E i \in 1 .. Len(call.releases) - 1 :
           call.releases[i + 1].timestamp - call.releases[i].timestamp = 29 * 86400

\* C19: for every initialized vesting-state value x, unpacking the LEN-byte buffer that
\* packing x produces succeeds and returns a value equal to x in every field,
\* start_balance and period_count included.
C19_VestingStateRoundTrip ==
    (call.fn = "VestingState" /\ call.done /\ call.x.is_initialized) =>
        /\ call.result.err = "Ok"
        /\ call.result.value = call.x

\* The length of the packed form in the wire-format table: the tag, then
\* beneficiary(32) + start_ts(8) + end_ts(8) + period_count(8) + nonce(1) +
\* amount(8) for Create, amount(8) for Withdraw, the key for SetBeneficiary.
WireLen(ix) ==
    CASE ix.tag = "Init" -> 1
      [] ix.tag = "CreateVesting" -> 1 + 32 + 8 + 8 + 8 + 1 + 8
      [] ix.tag = "Withdraw" -> 1 + 8
      [] ix.tag = "SetBeneficiary" -> 1 + 32

\* C18: for every instruction value ix, pack(ix) has the widths of the
\* wire-format table and unpack(pack(ix)) returns Ok(ix), every field equal.
C18_InstructionRoundTrip ==
    (call.fn = "VestingInstruction" /\ call.done) =>
        /\ Len(call.packed) = WireLen(call.ix)
        /\ call.result.err = "Ok"
        /\ call.result.value = call.ix

\* C21: no release is paid before its time: whenever an Unlock has executed,
\* the total paid out by Unlocks from the account is at most the sum of the
\* original quantities of the releases whose timestamp is <= the ledger time
\* of that Unlock.
C21_NoEarlyRelease ==
    (last.op = "Unlock" /\ Allocated(vest, last.vkey)) =>
        LET original == created[last.vkey].releases
            stored == vest[last.vkey].releases
        IN  /\ created[last.vkey].paid <= DueSum(original, last.t)
            /\ \A i \in 1 .. Len(original) :
                   stored[i].quantity # original[i].quantity =>
                       original[i].timestamp <= last.t

C21_Witness ==
    /\ last.op = "Unlock" /\ last.err = "Ok"
    /\ created[last.vkey].paid = 1
    /\ DueSum(created[last.vkey].releases, last.t) = 1
    /\ SumQty(vest[last.vkey].releases) = 1
    /\ \E i \in 1 .. Len(vest[last.vkey].releases) :
           vest[last.vkey].releases[i].timestamp > last.t

\* C22: in every vesting account that a successful Create has populated, the
\* stored release timestamps are non-decreasing in slot order (over the slots
\* the Create has written).
C22_TimestampsNonDecreasing ==
    \A k \in VestKeys :
        (IsInit(vest, k) /\ created[k].count >= 1) =>
            \A i \in 1 .. Len(created[k].releases) - 1 :
                vest[k].releases[i].timestamp <= vest[k].releases[i + 1].timestamp

\* C23: an Unlock, successful or failed, changes no release timestamp, no
\* header field and not the number of release slots of the vesting account;
\* it changes at most the quantity fields of releases whose timestamp has
\* elapsed, which it sets to zero.
C23_UnlockFrame ==
    (last.op = "Unlock") =>
        /\ \A k \in VestKeys \ {last.vkey} : vest[k] = last.pre_vest[k]
        /\ ~Allocated(last.pre_vest, last.vkey) => vest = last.pre_vest
        /\ Allocated(last.pre_vest, last.vkey) =>
               LET before == last.pre_vest[last.vkey]
                   after == vest[last.vkey]
               IN  /\ after.owner = before.owner
                   /\ after.data_len = before.data_len
                   /\ after.is_initialized = before.is_initialized
                   /\ after.mint = before.mint
                   /\ after.recipient = before.recipient
                   /\ Len(after.releases) = Len(before.releases)
                   /\ \A i \in 1 .. Len(before.releases) :
                          /\ after.releases[i].timestamp = before.releases[i].timestamp
                          /\ after.releases[i].quantity # before.releases[i].quantity =>
                                 /\ before.releases[i].timestamp <= last.t
                                 /\ after.releases[i].quantity = 0
                   /\ last.err # "Ok" => after = before

C23_Witness ==
    /\ last.op = "Unlock" /\ last.err = "Ok"
    /\ Len(vest[last.vkey].releases) = 2
    /\ last.pre_vest[last.vkey].releases[1] = [timestamp |-> U32_MAX, quantity |-> 1]
    /\ vest[last.vkey].releases[1] = [timestamp |-> U32_MAX, quantity |-> 0]
    /\ last.pre_vest[last.vkey].releases[2].quantity = 1

\* The index of the first release at which the running total of rs no longer
\* fits in u64 (Len(rs) + 1 when the total fits).
OverflowAt(rs) ==
    LET over == {i \in 1 .. Len(rs) : SumQty(SubSeq(rs, 1, i)) > U64_MAX}
    IN  IF over = {} THEN Len(rs) + 1
        ELSE CHOOSE i \in over : \A j \in over : i <= j

\* C24: a Create whose release quantities sum beyond u64::MAX fails, with
\* InvalidInstructionData when the account has a slot for every release that
\* precedes the overflow, before any transfer; afterwards the vesting account
\* is still empty (is_initialized false, no release written) and no balance
\* has changed.
C24_CreateOverflow ==
    (/\ last.op = "Create"
     /\ create_checks(last.pre_vest, last.signed, last.vkey, last.dst, last.seed) = ""
     /\ SumQty(last.releases) > U64_MAX)
    => /\ last.err # "Ok"
       /\ OverflowAt(last.releases) - 1 <= Len(last.pre_vest[last.vkey].releases) =>
              last.err = "InvalidInstructionData"
       /\ Untouched
       /\ ~vest[last.vkey].is_initialized
       /\ vest[last.vkey] = EmptyAccount(Len(vest[last.vkey].releases))

C24_Witness ==
    /\ last.op = "Create" /\ last.err = "InvalidInstructionData"
    /\ SumQty(last.releases) > U64_MAX
    /\ last.releases[1].quantity = 1 /\ last.releases[1].timestamp = U32_MAX
    /\ Len(vest[last.vkey].releases) = MaxSlots
    /\ amount[last.src] = FundInit

\* The quantities stored in the vesting account at k (none before Init).
StoredSum(v, k) == IF Allocated(v, k) THEN SumQty(v[k].releases) ELSE 0

\* C25: after any sequence of Init, Create and Unlock on a vesting account,
\* the amount paid out by Unlock plus the sum of the quantities still stored
\* equals the amount deposited at Create, and the vault of the Create holds
\* at least the sum of the stored quantities.
C25_Conservation ==
    \A k \in VestKeys :
        /\ created[k].paid + StoredSum(vest, k) = created[k].deposit
        /\ created[k].count >= 1 => amount[created[k].vault] >= StoredSum(vest, k)
        /\ created[k].count = 0 => StoredSum(vest, k) = 0

C25_Witness ==
    /\ last.op = "Unlock" /\ last.err = "Ok"
    /\ created[last.vkey].deposit = 2 /\ created[last.vkey].paid = 1
    /\ SumQty(vest[last.vkey].releases) = 1
    /\ amount[created[last.vkey].vault] = 1

\* The largest timestamp of a release list (0 for the empty list).
RECURSIVE MaxTimestamp(_)
MaxTimestamp(rs) ==
    IF rs = << >> THEN 0
    ELSE LET m == MaxTimestamp(Tail(rs))
         IN  IF rs[1].timestamp > m THEN rs[1].timestamp ELSE m

\* A successful Create has funded the account at k.
Funded(k) == created[k].count >= 1

\* Every stored quantity is zero and all that was deposited has been paid out.
Drained(k) ==
    /\ IsInit(vest, k)
    /\ \A i \in 1 .. Len(vest[k].releases) : vest[k].releases[i].quantity = 0
    /\ created[k].paid = created[k].deposit

\* The Unlock recorded in l names the account by its seed, the vault of the
\* Create, the recorded beneficiary and a token account of the beneficiary.
CorrectAccounts(l) ==
    /\ RightSeed(l) /\ l.program = SplToken
    /\ l.src = created[l.vkey].vault
    /\ l.recipient = l.pre_vest[l.vkey].recipient
    /\ TokOwner(l.dst) = l.recipient

\* The next Unlock that succeeds; invoking Unlock fairly means that it is
\* executed whenever it stays possible.
UnlockOk == Unlock_ix /\ last'.err = "Ok"

FairSpec == Spec /\ WF_vars(Tick) /\ WF_vars(UnlockOk)

\* C26: for an account funded by a successful Create, an Unlock with the
\* correct accounts at a ledger time that has reached the largest release
\* timestamp leaves every stored quantity zero and the total paid out equal to
\* the total deposited; and under fair invocation of Unlock that state is
\* eventually reached.
C26_EventuallyDrained ==
    /\ [](\A k \in VestKeys :
            (/\ last.op = "Unlock" /\ last.vkey = k /\ Funded(k)
             /\ CorrectAccounts(last)
             /\ last.t >= MaxTimestamp(created[k].releases))
            => Drained(k))
    /\ \A k \in VestKeys : Funded(k) ~> Drained(k)

\* The Unlock recorded in l reached the transfer and the token program
\* refused it.
UnlockTransferFails(l) ==
    /\ ReachesScan(l)
    /\ LET loop == unlock_loop(l.pre_vest[l.vkey].releases, 1, l.t, 0)
       IN  /\ loop.qty # 0
           /\ transfer(l.pre_amount, l.program, l.src, l.dst, l.vkey, TRUE,
                       loop.qty).err # "Ok"

\* C27: when the transfer from the vault to the recipient that Unlock requests
\* fails, the handler has rewritten no release entry (it writes them only
\* after the transfer has succeeded), and no quantity is zeroed and no balance
\* moves on the ledger.
C27_UnlockTransferFails ==
    (last.op = "Unlock" /\ UnlockTransferFails(last)) =>
        /\ last.err # "Ok"
        /\ process_unlock_tokens(last.pre_vest, last.pre_amount, last.t, last.vkey,
                                 last.src, last.recipient, last.dst, last.program,
                                 last.seed).vest = last.pre_vest
        /\ Untouched

C27_Witness ==
    /\ last.op = "Unlock" /\ UnlockTransferFails(last)
    /\ last.err = "Token:InsufficientFunds"
    /\ DueSum(vest[last.vkey].releases, AsU32(last.t)) = 2
    /\ amount[created[last.vkey].vault] = 2

\* C28: once a Create has succeeded on a vesting account, its header's mint
\* and recipient never change, whatever instructions the processor executes
\* afterwards.
C28_HeaderFrozen ==
    [][\A k \in VestKeys :
        IsInit(vest, k) =>
            /\ IsInit(vest', k)
            /\ vest'[k].mint = vest[k].mint
            /\ vest'[k].recipient = vest[k].recipient]_vars

C28_Witness ==
    /\ last.op = "Create" /\ AlreadyExists(last)
    /\ last.recipient = "mal" /\ vest[last.vkey].recipient = "ben"
    /\ last.mint = Mint2 /\ vest[last.vkey].mint = Mint1
    /\ created[last.vkey].paid >= 1

\* The sum, without wrapping, of the quantities that an Unlock at time `now`
\* accumulates from the release list rs.
RECURSIVE EligibleSum(_, _)
EligibleSum(rs, now) ==
    IF rs = << >> THEN 0
    ELSE (IF elapsed(now, rs[1]) THEN rs[1].quantity ELSE 0) + EligibleSum(Tail(rs), now)

\* C29: in every reachable state the stored release quantities of a vesting
\* account sum to at most the total that Create accumulated with overflow
\* checking, which fits in u64; so the unchecked `+=` of Unlock never
\* overflows, whenever it runs: its result is the true sum.
C29_UnlockSumFits ==
    \A k \in VestKeys :
        /\ StoredSum(vest, k) <= created[k].deposit
        /\ created[k].deposit <= U64_MAX
        /\ Allocated(vest, k) =>
               \A now \in 0 .. MaxClock :
                   /\ EligibleSum(vest[k].releases, now) <= U64_MAX
                   /\ unlock_loop(vest[k].releases, 1, now, 0).qty =
                          EligibleSum(vest[k].releases, now)

C29_Witness ==
    /\ last.op = "Unlock" /\ last.err = "Ok"
    /\ Len(vest[last.vkey].releases) = 2
    /\ \A i \in 1 .. 2 : last.pre_vest[last.vkey].releases[i].quantity >= 1
    /\ last.qty = 2
    /\ created[last.vkey].deposit = 2

\* C30: an Unlock whose recipient account differs from the beneficiary stored
\* in the header of the vesting account fails (with the recipient-mismatch
\* rejection when the address, ownership and token-program checks pass),
\* transfers nothing and leaves every release quantity unchanged.
C30_UnlockWrongRecipient ==
    (/\ last.op = "Unlock" /\ Allocated(last.pre_vest, last.vkey)
     /\ last.recipient # last.pre_vest[last.vkey].recipient)
    => /\ last.err # "Ok"
       /\ last.qty = 0
       /\ Untouched
       /\ (RightSeed(last) /\ last.program = SplToken) =>
              /\ last.err = "InvalidArgument"
              /\ last.msg = "recipient address does not match"

C30_Witness ==
    /\ last.op = "Unlock" /\ IsInit(last.pre_vest, last.vkey)
    /\ last.msg = "recipient address does not match"
    /\ last.recipient = "mal" /\ last.dst = "malTok"
    /\ vest[last.vkey].recipient = "ben"
    /\ last.src = created[last.vkey].vault
    /\ DueSum(vest[last.vkey].releases, AsU32(last.t)) = 2
    /\ amount[last.src] = 2

====
